---- MODULE Spec2Model ----
(***************************************************************************)
(* Goofspiel (open_spiel/games/goofspiel.cc): the round state machine of   *)
(* GoofspielState, driven through DoApplyAction / DoApplyActions.          *)
(*                                                                         *)
(* A state object is a record whose fields carry the names of the C++      *)
(* members.  Per-player vectors are functions over 0..P-1, per-card        *)
(* vectors functions over 0..N-1, std::vector histories are sequences.     *)
(* An operation returns [ok, s]: ok = FALSE is a SpielFatalError raised by *)
(* a SPIEL_CHECK, and s is the object as it was when the check failed.     *)
(* Returns() and the utility bounds are computed in double arithmetic, and *)
(* GoofspielObserver gives the string and tensor observations.             *)
(***************************************************************************)
EXTENDS Integers, Sequences, FiniteSets, TLC

\* Bounds of the configurations explored: cards per suit, players, and
\* cards dealt to the players altogether (num_players * num_cards).
MaxCards == 3
MaxPlayers == 4
MaxHandCards == 9

\* The largest number of arms of a bandit.
MaxNumActions == 2

\* The largest number of NextStrategy and ObserveLoss calls between two
\* resets of a bandit.
MaxCalls == 3

\* Player sentinels and parameters of the game type.
kChancePlayerId == -1
kSimultaneousPlayerId == -2
kInvalidPlayer == -3
kTerminalPlayerId == -4
kInvalidAction == -1
kMinPlayers == 2

PointsOrders == {"random", "ascending", "descending"}

VARIABLES game, state, fatal, bandit, calls

vars == <<game, state, fatal, bandit, calls>>

\* No game has been loaded.
NoGame == [loaded |-> FALSE]

\* No bandit has been constructed.
NoBandit == [constructed |-> FALSE]

\* No GoofspielState object has been constructed yet.
NoState == [constructed |-> FALSE]

Ok(s) == [ok |-> TRUE, s |-> s]

\* SpielFatalError: the operation stops where it is.
Fatal(s) == [ok |-> FALSE, s |-> s]

Size(v) == Cardinality(DOMAIN v)

Iota(n) == [i \in 1..n |-> i - 1]

----------------------------------------------------------------------------
(* Queries                                                                 *)

IsTerminal(s) == s.turns_ = s.num_cards_

CurrentPlayer(s) ==
  IF IsTerminal(s) THEN kTerminalPlayerId ELSE s.current_player_

IsChanceNode(s) == CurrentPlayer(s) = kChancePlayerId

IsSimultaneousNode(s) == CurrentPlayer(s) = kSimultaneousPlayerId

CurrentPointValue(s) == 1 + s.point_card_

Prob(num, den) == <<num, den>>

\* The played cards are not left out of the outcomes.
ChanceOutcomes_AllCards(s) ==
  IF ~IsChanceNode(s) THEN [ok |-> FALSE, outcomes |-> <<>>]
  ELSE LET played == {s.point_card_sequence_[k] : k \in DOMAIN s.point_card_sequence_}
           n == s.num_cards_ - Cardinality(played)
           p == Prob(1, n)
           kept == Iota(s.num_cards_)
           outcomes == [k \in DOMAIN kept |-> <<kept[k], p>>]
       IN  [ok |-> Len(outcomes) = n, outcomes |-> outcomes]

\* std::set<int> played(point_card_sequence_.begin(), ...end())
ChanceOutcomes(s) ==
  IF ~IsChanceNode(s) THEN [ok |-> FALSE, outcomes |-> <<>>]
  ELSE LET played == {s.point_card_sequence_[k] : k \in DOMAIN s.point_card_sequence_}
           n == s.num_cards_ - Cardinality(played)
           p == Prob(1, n)
           kept == SelectSeq(Iota(s.num_cards_), LAMBDA i : i \notin played)
           outcomes == [k \in DOMAIN kept |-> <<kept[k], p>>]
       IN  [ok |-> Len(outcomes) = n, outcomes |-> outcomes]

LegalChanceOutcomes(s) ==
  LET r == ChanceOutcomes(s)
  IN  [ok |-> r.ok, list |-> [k \in DOMAIN r.outcomes |-> r.outcomes[k][1]]]

\* The loop over the hand stops one card early.
MoveList_OffByOne(s, player) ==
  SelectSeq(Iota(Size(s.player_hands_[player]) - 1),
            LAMBDA bid : s.player_hands_[player][bid])

\* The bids of one player, in ascending order.
MoveList(s, player) ==
  SelectSeq(Iota(Size(s.player_hands_[player])),
            LAMBDA bid : s.player_hands_[player][bid])

RECURSIVE NumJointActions(_, _)
NumJointActions(s, p) ==
  IF p >= s.num_players_ THEN 1
  ELSE LET n == Len(MoveList(s, p))
       IN  (IF n > 0 THEN n ELSE 1) * NumJointActions(s, p + 1)

LegalFlatJointActions(s) ==
  IF \A p \in 0..(s.num_players_ - 1) : MoveList(s, p) = <<>>
  THEN <<>>
  ELSE Iota(NumJointActions(s, 0))

LegalActions(s, player) ==
  IF player = kSimultaneousPlayerId THEN [ok |-> TRUE, list |-> LegalFlatJointActions(s)]
  ELSE IF player = kChancePlayerId THEN LegalChanceOutcomes(s)
  ELSE IF player = kTerminalPlayerId THEN [ok |-> TRUE, list |-> <<>>]
  ELSE IF ~(player >= 0 /\ player < s.num_players_) THEN [ok |-> FALSE, list |-> <<>>]
  ELSE [ok |-> TRUE, list |-> MoveList(s, player)]

\* Digit p (radix = number of legal actions of p) of the flat joint index.
RECURSIVE FlatDigits(_, _, _)
FlatDigits(s, flat, p) ==
  IF p >= s.num_players_ THEN <<>>
  ELSE LET legal == MoveList(s, p)
           n == Len(legal)
       IN  IF n > 0
           THEN <<legal[(flat % n) + 1]>> \o FlatDigits(s, flat \div n, p + 1)
           ELSE <<kInvalidAction>> \o FlatDigits(s, flat, p + 1)

FlatJointActionToActions(s, flat) ==
  LET d == FlatDigits(s, flat, 0)
  IN  [p \in 0..(s.num_players_ - 1) |-> d[p + 1]]

----------------------------------------------------------------------------
(* Construction                                                            *)

\* The dealt card is shown but not recorded.
DealPointCard_NoAppend(s, point_card) ==
  IF ~(point_card >= 0) THEN Fatal(s)
  ELSE IF ~(point_card < s.num_cards_) THEN Fatal(s)
  ELSE Ok([s EXCEPT !.point_card_ = point_card])

DealPointCard(s, point_card) ==
  IF ~(point_card >= 0) THEN Fatal(s)
  ELSE IF ~(point_card < s.num_cards_) THEN Fatal(s)
  ELSE Ok([s EXCEPT !.point_card_ = point_card,
                    !.point_card_sequence_ = Append(@, point_card)])

\* std::vector<bool> hand(num_cards_, true), one per player.
InitialHands(num_players, num_cards) ==
  [p \in 0..(num_players - 1) |-> [c \in 0..(num_cards - 1) |-> TRUE]]

\* Descending order started from the lowest card.
SetPointsCardIndex_DescFromZero(s) ==
  IF s.points_order_ = "random"
  THEN Ok([s EXCEPT !.point_card_ = -1, !.current_player_ = kChancePlayerId])
  ELSE LET r == DealPointCard(s, 0)
       IN  IF r.ok THEN Ok([r.s EXCEPT !.current_player_ = kSimultaneousPlayerId])
           ELSE r

\* "Set the points card index."
SetPointsCardIndex(s) ==
  IF s.points_order_ = "random"
  THEN Ok([s EXCEPT !.point_card_ = -1, !.current_player_ = kChancePlayerId])
  ELSE IF s.points_order_ = "ascending"
  THEN LET r == DealPointCard(s, 0)
       IN  IF r.ok THEN Ok([r.s EXCEPT !.current_player_ = kSimultaneousPlayerId])
           ELSE r
  ELSE LET r == DealPointCard(s, s.num_cards_ - 1)
       IN  IF r.ok THEN Ok([r.s EXCEPT !.current_player_ = kSimultaneousPlayerId])
           ELSE r

GoofspielState(num_players, num_cards, points_order) ==
  SetPointsCardIndex(
    [constructed |-> TRUE,
     num_players_ |-> num_players,
     num_cards_ |-> num_cards,
     points_order_ |-> points_order,
     current_player_ |-> kInvalidPlayer,
     winners_ |-> {},
     turns_ |-> 0,
     point_card_ |-> -1,
     point_card_sequence_ |-> <<>>,
     win_sequence_ |-> <<>>,
     actions_history_ |-> <<>>,
     points_ |-> [p \in 0..(num_players - 1) |-> 0],
     player_hands_ |-> InitialHands(num_players, num_cards)])

----------------------------------------------------------------------------
(* Round resolution                                                        *)

\* The checks without the one that the card is still held.
RECURSIVE ActionsValidFrom_NoHandCheck(_, _, _)
ActionsValidFrom_NoHandCheck(s, actions, p) ==
  IF p >= s.num_players_ THEN TRUE
  ELSE /\ actions[p] >= 0
       /\ actions[p] < s.num_cards_
       /\ ActionsValidFrom_NoHandCheck(s, actions, p + 1)

\* Only the bid of player 0 is checked.
ActionsValidFrom_FirstOnly(s, actions, p) ==
  /\ actions[0] >= 0
  /\ actions[0] < s.num_cards_
  /\ s.player_hands_[0][actions[0]]

\* SPIEL_CHECKs at the head of DoApplyActions.
RECURSIVE ActionsValidFrom(_, _, _)
ActionsValidFrom(s, actions, p) ==
  IF p >= s.num_players_ THEN TRUE
  ELSE /\ actions[p] >= 0
       /\ actions[p] < s.num_cards_
       /\ s.player_hands_[p][actions[p]]
       /\ ActionsValidFrom(s, actions, p + 1)

ActionsValid(s, actions) ==
  /\ Size(actions) = s.num_players_
  /\ ActionsValidFrom(s, actions, 0)

\* The comparison of the bid loop made non-strict: the last of the highest
\* bidders takes the card.
RECURSIVE HighestBidLoop_NonStrict(_, _, _)
HighestBidLoop_NonStrict(actions, p, acc) ==
  IF p >= Size(actions) THEN acc
  ELSE HighestBidLoop_NonStrict(actions, p + 1,
         IF actions[p] >= acc.max_bid
         THEN [max_bid |-> actions[p], num_max_bids |-> 1, max_bidder |-> p]
         ELSE acc)

RECURSIVE HighestBidLoop(_, _, _)
HighestBidLoop(actions, p, acc) ==
  IF p >= Size(actions) THEN acc
  ELSE HighestBidLoop(actions, p + 1,
         IF actions[p] > acc.max_bid
         THEN [max_bid |-> actions[p], num_max_bids |-> 1, max_bidder |-> p]
         ELSE IF actions[p] = acc.max_bid
         THEN [acc EXCEPT !.num_max_bids = @ + 1]
         ELSE acc)

HighestBid(actions) ==
  HighestBidLoop(actions, 0, [max_bid |-> -1, num_max_bids |-> 0, max_bidder |-> -1])

\* The winner's points become the value of the card instead of growing by it.
TakePointCard_Assigns(s, actions) ==
  LET h == HighestBid(actions)
  IN  IF h.num_max_bids = 1
      THEN [s EXCEPT !.points_[h.max_bidder] = CurrentPointValue(s),
                     !.win_sequence_ = Append(@, h.max_bidder)]
      ELSE [s EXCEPT !.win_sequence_ = Append(@, kInvalidPlayer)]

TakePointCard(s, actions) ==
  LET h == HighestBid(actions)
  IN  IF h.num_max_bids = 1
      THEN [s EXCEPT !.points_[h.max_bidder] = @ + CurrentPointValue(s),
                     !.win_sequence_ = Append(@, h.max_bidder)]
      ELSE [s EXCEPT !.win_sequence_ = Append(@, kInvalidPlayer)]

\* The played cards stay in the hands.
RemoveCards_None(s, actions) == s

\* Every hand loses the card bid by player 0.
RemoveCards_FirstBid(s, actions) ==
  [s EXCEPT !.player_hands_ =
     [p \in DOMAIN @ |-> [c \in DOMAIN @[p] |-> IF c = actions[0] THEN FALSE ELSE @[p][c]]]]

RemoveCards(s, actions) ==
  [s EXCEPT !.player_hands_ =
     [p \in DOMAIN @ |-> [c \in DOMAIN @[p] |-> IF c = actions[p] THEN FALSE ELSE @[p][c]]]]

\* Random order without handing the turn to chance.
DealNextPointCard_NoChance(s) ==
  IF s.points_order_ = "random"
  THEN Ok([s EXCEPT !.point_card_ = -1])
  ELSE IF s.points_order_ = "ascending"
  THEN IF s.point_card_ < s.num_cards_ - 1 THEN DealPointCard(s, s.point_card_ + 1) ELSE Ok(s)
  ELSE IF s.point_card_ > 0 THEN DealPointCard(s, s.point_card_ - 1) ELSE Ok(s)

\* Descending order that stops one card early.
DealNextPointCard_DescStopsEarly(s) ==
  IF s.points_order_ = "random"
  THEN Ok([s EXCEPT !.current_player_ = kChancePlayerId, !.point_card_ = -1])
  ELSE IF s.points_order_ = "ascending"
  THEN IF s.point_card_ < s.num_cards_ - 1 THEN DealPointCard(s, s.point_card_ + 1) ELSE Ok(s)
  ELSE IF s.point_card_ > 1 THEN DealPointCard(s, s.point_card_ - 1) ELSE Ok(s)

DealNextPointCard(s) ==
  IF s.points_order_ = "random"
  THEN Ok([s EXCEPT !.current_player_ = kChancePlayerId, !.point_card_ = -1])
  ELSE IF s.points_order_ = "ascending"
  THEN IF s.point_card_ < s.num_cards_ - 1 THEN DealPointCard(s, s.point_card_ + 1) ELSE Ok(s)
  ELSE IF s.point_card_ > 0 THEN DealPointCard(s, s.point_card_ - 1) ELSE Ok(s)

\* A player who equals the maximum replaces the winners found so far.
RECURSIVE DetermineWinnerLoop_NonStrict(_, _, _, _)
DetermineWinnerLoop_NonStrict(s, p, max_points, winners) ==
  IF p >= s.num_players_ THEN winners
  ELSE IF s.points_[p] >= max_points
       THEN DetermineWinnerLoop_NonStrict(s, p + 1, s.points_[p], {p})
       ELSE DetermineWinnerLoop_NonStrict(s, p + 1, max_points, winners)

\* A new maximum joins the winners found so far instead of replacing them.
RECURSIVE DetermineWinnerLoop_NoClear(_, _, _, _)
DetermineWinnerLoop_NoClear(s, p, max_points, winners) ==
  IF p >= s.num_players_ THEN winners
  ELSE IF s.points_[p] > max_points
       THEN DetermineWinnerLoop_NoClear(s, p + 1, s.points_[p], winners \cup {p})
       ELSE IF s.points_[p] = max_points
       THEN DetermineWinnerLoop_NoClear(s, p + 1, max_points, winners \cup {p})
       ELSE DetermineWinnerLoop_NoClear(s, p + 1, max_points, winners)

RECURSIVE DetermineWinnerLoop(_, _, _, _)
DetermineWinnerLoop(s, p, max_points, winners) ==
  IF p >= s.num_players_ THEN winners
  ELSE IF s.points_[p] > max_points
       THEN DetermineWinnerLoop(s, p + 1, s.points_[p], {p})
       ELSE IF s.points_[p] = max_points
       THEN DetermineWinnerLoop(s, p + 1, max_points, winners \cup {p})
       ELSE DetermineWinnerLoop(s, p + 1, max_points, winners)

DetermineWinner(s) ==
  [s EXCEPT !.winners_ = DetermineWinnerLoop(s, 0, -1, s.winners_)]

RECURSIVE DoApplyActions(_, _)

ApplyFlatJointAction(s, action_id) ==
  DoApplyActions(s, FlatJointActionToActions(s, action_id))

DoApplyAction(s, action_id) ==
  IF IsSimultaneousNode(s) THEN ApplyFlatJointAction(s, action_id)
  ELSE IF ~IsChanceNode(s) THEN Fatal(s)
  ELSE LET r == DealPointCard(s, action_id)
       IN  IF r.ok THEN Ok([r.s EXCEPT !.current_player_ = kSimultaneousPlayerId])
           ELSE r

\* Each player plays their last card: the vector built from LegalActions(p),
\* or the first player whose SPIEL_CHECK_EQ(legal_actions.size(), 1) fails.
LastCards(s) ==
  IF \A p \in 0..(s.num_players_ - 1) : Len(LegalActions(s, p).list) = 1
  THEN [ok |-> TRUE, actions |-> [p \in 0..(s.num_players_ - 1) |-> LegalActions(s, p).list[1]]]
  ELSE [ok |-> FALSE, actions |-> <<>>]

\* The last turn left to the driver.
PlayLastTurn_Skip(s) == Ok(s)

\* "There might be a chance event": the only card left is dealt.
PlayLastChance(s) ==
  IF IsChanceNode(s)
  THEN LET legal_actions == LegalChanceOutcomes(s)
       IN  IF ~legal_actions.ok THEN Fatal(s)
           ELSE IF Len(legal_actions.list) # 1 THEN Fatal(s)
           ELSE DoApplyAction(s, Head(legal_actions.list))
  ELSE Ok(s)

PlayLastTurn(s) ==
  LET r1 == PlayLastChance(s)
  IN  IF ~r1.ok THEN r1
      ELSE LET last == LastCards(r1.s)
           IN  IF ~last.ok THEN Fatal(r1.s)
               ELSE DoApplyActions(r1.s, last.actions)

\* DoApplyActions up to turns_++, for a valid vector.
ResolveRound(s, actions) ==
  LET s1 == TakePointCard(s, actions)
      s2 == [s1 EXCEPT !.actions_history_ = Append(@, actions)]
      s3 == RemoveCards(s2, actions)
      r4 == DealNextPointCard(s3)
  IN  IF ~r4.ok THEN r4
      ELSE Ok([r4.s EXCEPT !.turns_ = @ + 1])

DoApplyActions(s, actions) ==
  IF ~ActionsValid(s, actions) THEN Fatal(s)
  ELSE LET r5 == ResolveRound(s, actions)
       IN  IF ~r5.ok THEN r5
           ELSE IF r5.s.turns_ = r5.s.num_cards_ - 1 THEN PlayLastTurn(r5.s)
           ELSE IF r5.s.turns_ = r5.s.num_cards_ THEN Ok(DetermineWinner(r5.s))
           ELSE Ok(r5.s)

----------------------------------------------------------------------------
(* Returns and utility bounds                                              *)
(*                                                                         *)
(* Returns() computes in double.  A double is held here as the exact real  *)
(* number  num/den + err/(den * 2^exp) : the exact quotient of the small   *)
(* integers the code divides, plus the rounding error accumulated so far,  *)
(* with |err| / 2^exp < 1.  Every operation forms the exact result and     *)
(* rounds it to the nearest double, ties to even.                          *)

ReturnsTypes == {"win_loss", "point_difference", "total_points"}

kMantissaBits == 53

Double(num, den, err, exp) == [num |-> num, den |-> den, err |-> err, exp |-> exp]

IntToDouble(i) == Double(i, 1, 0, 0)

Abs(i) == IF i < 0 THEN -i ELSE i

Sign(i) == IF i < 0 THEN -1 ELSE IF i > 0 THEN 1 ELSE 0

Max(a, b) == IF a >= b THEN a ELSE b

RECURSIVE Pow2(_)
Pow2(n) == IF n = 0 THEN 1 ELSE 2 * Pow2(n - 1)

\* err * 2^k
Scale(err, k) == IF err = 0 THEN 0 ELSE err * Pow2(k)

\* 2^n mod m, by repeated squaring
RECURSIVE Pow2Mod(_, _)
Pow2Mod(n, m) ==
  IF n = 0 THEN 1 % m
  ELSE LET h == Pow2Mod(n \div 2, m)
       IN  (h * h * (IF n % 2 = 1 THEN 2 ELSE 1)) % m

\* floor(log2(a / d)) for a, d > 0.
RECURSIVE Binade(_, _)
Binade(a, d) ==
  IF a >= 2 * d THEN Binade(a, 2 * d) + 1
  ELSE IF a < d THEN Binade(2 * a, d) - 1
  ELSE 0

\* The double nearest to the exact value x (round to nearest, ties to even).
\* With ulp = 2^-u the unit of the binade of |x|, and M = den * 2^(K-u),
\* |x| / ulp = (|num| * 2^K + e2) / M : R is its remainder, R2 tells whether
\* its integer part is odd.
RoundToDouble(x) ==
  CASE x.num = 0 /\ x.err = 0 -> IntToDouble(0)
    [] x.num # 0 ->
         LET s     == Sign(x.num)
             a     == Abs(x.num)
             d     == x.den
             e     == s * x.err
             E0    == Binade(a, d)
             onPow == IF E0 >= 0 THEN a = d * Pow2(E0) ELSE a * Pow2(-E0) = d
             E     == IF onPow /\ e < 0 THEN E0 - 1 ELSE E0
             u     == (kMantissaBits - 1) - E
             K     == Max(u, x.exp)
             e2    == Scale(e, K - x.exp)
             M     == d * Pow2(K - u)
             R     == ((a % M) * Pow2Mod(K, M) + e2) % M
             R2    == ((a % (2 * M)) * Pow2Mod(K, 2 * M) + e2) % (2 * M)
             up    == 2 * R > M \/ (2 * R = M /\ R2 >= M)
             delta == IF R = 0 THEN 0 ELSE IF up THEN M - R ELSE -R
         IN  Double(x.num, d, s * (e2 + delta), K)

\* x + y and x - y in exact arithmetic.
ExactAdd(x, y) ==
  LET K == Max(x.exp, y.exp)
  IN  Double(x.num * y.den + y.num * x.den, x.den * y.den,
             Scale(x.err * y.den, K - x.exp) + Scale(y.err * x.den, K - y.exp), K)

Neg(x) == Double(-x.num, x.den, -x.err, x.exp)

DoubleAdd(x, y) == RoundToDouble(ExactAdd(x, y))

DoubleSub(x, y) == RoundToDouble(ExactAdd(x, Neg(y)))

\* x / n and n * x for an int n (converted to double, exactly).
DoubleDiv(x, n) ==
  RoundToDouble(Double(Sign(n) * x.num, x.den * Abs(n), Sign(n) * x.err, x.exp))

DoubleMul(n, x) == RoundToDouble(Double(n * x.num, x.den, n * x.err, x.exp))

\* The sign of x - y.
DoubleCmp(x, y) ==
  LET z == ExactAdd(x, Neg(y))
  IN  IF z.num # 0 THEN Sign(z.num) ELSE Sign(z.err)

DoubleEq(x, y) == DoubleCmp(x, y) = 0

Zeros(s) == [p \in 0..(s.num_players_ - 1) |-> IntToDouble(0)]

\* Every loser gets -1.
WinLossReturns_LosersMinusOne(s) ==
  IF Cardinality(s.winners_) = s.num_players_ THEN Zeros(s)
  ELSE LET num_winners == Cardinality(s.winners_)
       IN  [p \in 0..(s.num_players_ - 1) |->
              IF p \in s.winners_ THEN DoubleDiv(IntToDouble(1), num_winners)
              ELSE IntToDouble(-1)]

\* returns_type_ == ReturnsType::kWinLoss
WinLossReturns(s) ==
  IF Cardinality(s.winners_) = s.num_players_ THEN Zeros(s)
  ELSE LET num_winners == Cardinality(s.winners_)
           num_losers  == s.num_players_ - num_winners
       IN  [p \in 0..(s.num_players_ - 1) |->
              IF p \in s.winners_ THEN DoubleDiv(IntToDouble(1), num_winners)
              ELSE DoubleDiv(IntToDouble(-1), num_losers)]

\* double sum after the first p iterations of  sum += points_[p]
RECURSIVE PointsSum(_, _)
PointsSum(s, p) ==
  IF p = 0 THEN IntToDouble(0)
  ELSE DoubleAdd(PointsSum(s, p - 1), IntToDouble(s.points_[p - 1]))

\* returns_type_ == ReturnsType::kPointDifference
PointDifferenceReturns(s) ==
  LET sum == PointsSum(s, s.num_players_)
  IN  [p \in 0..(s.num_players_ - 1) |->
         DoubleSub(IntToDouble(s.points_[p]), DoubleDiv(sum, s.num_players_))]

\* returns_type_ == ReturnsType::kTotalPoints
TotalPointsReturns(s) ==
  [p \in 0..(s.num_players_ - 1) |-> IntToDouble(s.points_[p])]

\* GoofspielState::Returns
Returns(s, returns_type) ==
  IF ~IsTerminal(s) THEN Zeros(s)
  ELSE CASE returns_type = "win_loss"         -> WinLossReturns(s)
         [] returns_type = "point_difference" -> PointDifferenceReturns(s)
         [] returns_type = "total_points"     -> TotalPointsReturns(s)

\* int / int of C++: the quotient truncated toward zero.
CDiv(a, b) == IF a >= 0 THEN a \div b ELSE -((-a) \div b)

\* GoofspielGame::MinUtility
MinUtility(g, returns_type) ==
  CASE returns_type = "win_loss"         -> IntToDouble(-1)
    [] returns_type = "point_difference" ->
         IntToDouble(CDiv(-CDiv(g.num_cards_ * (g.num_cards_ + 1), 2), g.num_players_))
    [] returns_type = "total_points"     -> IntToDouble(0)

\* GoofspielGame::MaxUtility
MaxUtility(g, returns_type) ==
  CASE returns_type = "win_loss"         -> IntToDouble(1)
    [] returns_type = "point_difference" ->
         LET sum == IntToDouble(CDiv(g.num_cards_ * (g.num_cards_ + 1), 2))
         IN  DoubleDiv(DoubleMul(g.num_players_ - 1, sum), g.num_players_)
    [] returns_type = "total_points"     ->
         IntToDouble(CDiv(g.num_cards_ * (g.num_cards_ + 1), 2))

----------------------------------------------------------------------------
(* Observations (GoofspielObserver)                                        *)
(*                                                                         *)
(* An observer is its IIGObservationType; impinfo is GoofspielGame's       *)
(* IsImpInfo().  A tensor is the sequence of the blocks the allocator      *)
(* hands out, each with its name, its shape and its values (0 where the    *)
(* code writes nothing).  A string observation is the string itself.       *)
(* InferTensorShape runs WriteTensor for player 0 on the initial state and *)
(* keeps the names and shapes it asked for.                                *)

PrivateInfoTypes == {"kNone", "kSinglePlayer", "kAllPlayers"}

IIGObservationTypes ==
  [public_info : BOOLEAN, perfect_recall : BOOLEAN, private_info : PrivateInfoTypes]

NumRounds(s) == s.num_cards_

MaxPointSlots(s) == (s.num_cards_ * (s.num_cards_ + 1)) \div 2 + 1

\* The player written in row n of a block that starts at the observer.
NextPlayer(s, player, n) == (player + n) % s.num_players_

\* allocator->Get(name, {rows, cols}) and the positions then set to 1.0.
Block2(name, rows, cols, ones) ==
  [name |-> name, shape |-> <<rows, cols>>, ones |-> ones]

\* allocator->Get(name, {size}) and the positions then set to 1.0.
Block1(name, size, ones) ==
  [name |-> name, shape |-> <<size>>, ones |-> ones]

\* The positions of a block of the given shape.
Indices(shape) ==
  IF Len(shape) = 1 THEN 0..(shape[1] - 1)
  ELSE (0..(shape[1] - 1)) \X (0..(shape[2] - 1))

\* The zero-initialised block after the writes.
Filled(block) ==
  [name   |-> block.name,
   shape  |-> block.shape,
   values |-> [i \in Indices(block.shape) |-> IF i \in block.ones THEN 1 ELSE 0]]

PointTotalsBlock(s, player) ==
  Block2("point_totals", s.num_players_, MaxPointSlots(s),
         {<<n, s.points_[NextPlayer(s, player, n)]>> : n \in 0..(s.num_players_ - 1)})

PlayerHandsBlock(s, player) ==
  Block2("player_hands", s.num_players_, s.num_cards_,
         {<<n, c>> \in (0..(s.num_players_ - 1)) \X (0..(s.num_cards_ - 1)) :
            s.player_hands_[NextPlayer(s, player, n)][c]})

\* The rounds are counted from 1.
WinSequenceBlock_OneBased(s) ==
  Block2("win_sequence", NumRounds(s), s.num_players_,
         {<<i, s.win_sequence_[i]>> :
            i \in {k \in DOMAIN s.win_sequence_ : s.win_sequence_[k] # kInvalidPlayer}})

WinSequenceBlock(s) ==
  Block2("win_sequence", NumRounds(s), s.num_players_,
         {<<i - 1, s.win_sequence_[i]>> :
            i \in {k \in DOMAIN s.win_sequence_ : s.win_sequence_[k] # kInvalidPlayer}})

PointCardSequenceBlock(s) ==
  Block2("point_card_sequence", NumRounds(s), s.num_cards_,
         {<<round - 1, s.point_card_sequence_[round]>> : round \in DOMAIN s.point_card_sequence_})

PointCardBlock(s) ==
  Block1("point_card", s.num_cards_,
         IF s.point_card_sequence_ # <<>>
         THEN {s.point_card_sequence_[Len(s.point_card_sequence_)]} ELSE {})

\* The hand of the next player is written instead of the observer's.
PlayerHandBlock_NextPlayer(s, player) ==
  Block1("player_hand", s.num_cards_,
         {c \in 0..(s.num_cards_ - 1) : s.player_hands_[(player + 1) % s.num_players_][c]})

PlayerHandBlock(s, player) ==
  Block1("player_hand", s.num_cards_,
         {c \in 0..(s.num_cards_ - 1) : s.player_hands_[player][c]})

PlayerActionSequenceBlock(s, player) ==
  Block2("player_action_sequence", NumRounds(s), s.num_cards_,
         {<<round - 1, s.actions_history_[round][player]>> : round \in DOMAIN s.actions_history_})

\* The blocks GoofspielObserver::WriteTensor requests, in order, with the
\* positions it writes.
TensorWrites(iig_obs_type, impinfo, s, player) ==
  (IF iig_obs_type.public_info
   THEN <<PointTotalsBlock(s, player)>>
          \o (IF ~impinfo THEN <<PlayerHandsBlock(s, player)>> ELSE <<>>)
          \o <<WinSequenceBlock(s)>>
          \o (IF iig_obs_type.perfect_recall
              THEN <<PointCardSequenceBlock(s)>> ELSE <<PointCardBlock(s)>>)
   ELSE <<>>)
  \o
  (IF impinfo /\ iig_obs_type.private_info = "kSinglePlayer"
   THEN <<PlayerHandBlock(s, player)>>
          \o (IF iig_obs_type.perfect_recall
              THEN <<PlayerActionSequenceBlock(s, player)>> ELSE <<>>)
   ELSE <<>>)

\* GoofspielObserver::WriteTensor
WriteTensor(iig_obs_type, impinfo, s, player) ==
  LET writes == TensorWrites(iig_obs_type, impinfo, s, player)
  IN  [k \in DOMAIN writes |-> Filled(writes[k])]

\* absl::StrAppend of every element of a sequence of strings.
RECURSIVE StrCat(_)
StrCat(q) == IF q = <<>> THEN "" ELSE Head(q) \o StrCat(Tail(q))

\* "P<p> hand: <c+1> ... \n" for the cards p holds.
HandString(s, p) ==
  "P" \o ToString(p) \o " hand: "
    \o StrCat([k \in 1..s.num_cards_ |->
                 IF s.player_hands_[p][k - 1] THEN ToString(k) \o " " ELSE ""])
    \o "\n"

ActionSequenceString(s, player) ==
  "P" \o ToString(player) \o " action sequence: "
    \o StrCat([i \in DOMAIN s.actions_history_ |->
                 ToString(s.actions_history_[i][player]) \o " "])
    \o "\n"

PointCardSequenceString(s) ==
  "Point card sequence: "
    \o StrCat([i \in DOMAIN s.point_card_sequence_ |->
                 ToString(1 + s.point_card_sequence_[i]) \o " "])
    \o "\n"

CurrentPointCardString(s) ==
  "Current point card: " \o ToString(CurrentPointValue(s)) \o "\n"

WinSequenceString(s) ==
  "Win sequence: "
    \o StrCat([i \in DOMAIN s.win_sequence_ |-> ToString(s.win_sequence_[i]) \o " "])
    \o "\n"

PointsString(s) ==
  "Points: "
    \o StrCat([k \in 1..s.num_players_ |-> ToString(s.points_[k - 1]) \o " "])
    \o "\n"

\* GoofspielObserver::StringFrom
StringFrom(iig_obs_type, impinfo, s, player) ==
  (IF impinfo /\ iig_obs_type.private_info = "kSinglePlayer"
   THEN HandString(s, player)
          \o (IF iig_obs_type.perfect_recall THEN ActionSequenceString(s, player) ELSE "")
   ELSE "")
  \o
  (IF iig_obs_type.public_info
   THEN (IF iig_obs_type.perfect_recall
         THEN PointCardSequenceString(s) ELSE CurrentPointCardString(s))
          \o (IF ~impinfo
              THEN StrCat([k \in 1..s.num_players_ |-> HandString(s, k - 1)]) ELSE "")
          \o WinSequenceString(s)
          \o PointsString(s)
   ELSE "")

\* The observers GoofspielGame constructs.
kDefaultObsType ==
  [public_info |-> TRUE, perfect_recall |-> FALSE, private_info |-> "kSinglePlayer"]

kInfoStateObsType ==
  [public_info |-> TRUE, perfect_recall |-> TRUE, private_info |-> "kSinglePlayer"]

\* GoofspielState::InformationStateString
InformationStateString(impinfo, s, player) == StringFrom(kInfoStateObsType, impinfo, s, player)

\* GoofspielState::InformationStateTensor
InformationStateTensor(impinfo, s, player) == WriteTensor(kInfoStateObsType, impinfo, s, player)

\* A call of WriteTensor that walks the win sequence by consuming it.
ObserveTensor_Consuming(iig_obs_type, impinfo, s, player) ==
  [s      |-> [s EXCEPT !.win_sequence_ = <<>>],
   tensor |-> WriteTensor(iig_obs_type, impinfo, s, player)]

\* A call of WriteTensor on a zero-initialised buffer: the observed state
\* after the call (it is passed as const State&, the observer is const and
\* holds only iig_obs_type_) and the tensor written.
ObserveTensor(iig_obs_type, impinfo, s, player) ==
  [s      |-> s,
   tensor |-> WriteTensor(iig_obs_type, impinfo, s, player)]

\* A call of StringFrom: the observed state after the call and the string.
ObserveString(iig_obs_type, impinfo, s, player) ==
  [s      |-> s,
   string |-> StringFrom(iig_obs_type, impinfo, s, player)]

\* InferTensorShape(game, observer)
InferTensorShape(g, iig_obs_type, impinfo) ==
  LET writes == TensorWrites(iig_obs_type, impinfo,
                             GoofspielState(g.num_players_, g.num_cards_, g.points_order_).s, 0)
  IN  [k \in DOMAIN writes |-> [name |-> writes[k].name, shape |-> writes[k].shape]]

\* GoofspielGame::InformationStateTensorShape
InformationStateTensorShape(g, impinfo) == InferTensorShape(g, kInfoStateObsType, impinfo)

\* GoofspielGame::ObservationTensorShape
ObservationTensorShape(g, impinfo) == InferTensorShape(g, kDefaultObsType, impinfo)

----------------------------------------------------------------------------
(* Clone                                                                   *)
(*                                                                         *)
(* State objects live in a heap, a sequence of GoofspielState objects      *)
(* addressed by their index; a caller holds addresses.                     *)

\* The copy constructor: every member is copied by value.
CopyOf(s) == [f \in DOMAIN s |-> s[f]]

\* The caller gets the address of the object it called Clone() on.
Clone_Alias(heap, this) == [heap |-> heap, ptr |-> this]

\* GoofspielState::Clone: new GoofspielState(*this)
Clone(heap, this) ==
  [heap |-> Append(heap, CopyOf(heap[this])), ptr |-> Len(heap) + 1]

\* State::ApplyAction / ApplyActions on the object at address ptr.
ApplyAt(heap, ptr, move) ==
  [heap EXCEPT ![ptr] = IF move.joint THEN DoApplyActions(@, move.actions).s
                        ELSE DoApplyAction(@, move.action_id).s]

-----------------------------------------------------------------------------
(* Bandits (algorithms/bandits.cc)                                         *)
(*                                                                         *)
(* A bandit is a record of the fields of its class.  A vector of doubles   *)
(* is a function on 0..(num_actions_ - 1); a double is the rational number *)
(* [num, den] in lowest terms that the arithmetic of the code computes     *)
(* when no operation rounds.                                               *)

RECURSIVE GCD(_, _)
GCD(a, b) == IF b = 0 THEN a ELSE GCD(b, a % b)

Rat(num, den) ==
  LET g == GCD(Abs(num), Abs(den))
  IN  [num |-> Sign(den) * (num \div g), den |-> Abs(den) \div g]

RatAdd(x, y) == Rat(x.num * y.den + y.num * x.den, x.den * y.den)

RatSub(x, y) == Rat(x.num * y.den - y.num * x.den, x.den * y.den)

RatMul(x, y) == Rat(x.num * y.num, x.den * y.den)

RatDiv(x, y) == Rat(x.num * y.den, x.den * y.num)

\* regret > 0. ? regret : 0.   and   std::fmax(0, x)
Positive(x) == IF x.num > 0 THEN x ELSE Rat(0, 1)

\* The sum of a vector, accumulated from index 0.
RECURSIVE Accumulate(_, _)
Accumulate(v, n) ==
  IF n = 0 THEN Rat(0, 1) ELSE RatAdd(Accumulate(v, n - 1), v[n - 1])

\* std::vector<double>(num_actions, value)
Filled_n(num_actions, value) == [i \in 0..(num_actions - 1) |-> value]

\* RegretMatching::RegretMatching
RegretMatching(num_actions) ==
  [class                |-> "RegretMatching",
   num_actions_         |-> num_actions,
   cumulative_regrets_  |-> Filled_n(num_actions, Rat(0, 1)),
   cumulative_strategy_ |-> Filled_n(num_actions, Rat(0, 1)),
   current_strategy_    |-> Filled_n(num_actions, Rat(1, num_actions))]

\* RegretMatchingPlus::RegretMatchingPlus
RegretMatchingPlus(num_actions) ==
  [class                |-> "RegretMatchingPlus",
   num_actions_         |-> num_actions,
   cumulative_regrets_  |-> Filled_n(num_actions, Rat(0, 1)),
   cumulative_strategy_ |-> Filled_n(num_actions, Rat(0, 1)),
   current_strategy_    |-> Filled_n(num_actions, Rat(1, num_actions)),
   time_                |-> 1]

\* The strategy both NextStrategy functions compute from the regrets.
RegretMatchingStrategy(b) ==
  LET positive_regrets_sum ==
        Accumulate([i \in DOMAIN b.cumulative_regrets_ |-> Positive(b.cumulative_regrets_[i])],
                   b.num_actions_)
  IN  IF positive_regrets_sum.num # 0
      THEN [i \in 0..(b.num_actions_ - 1) |->
              RatDiv(Positive(b.cumulative_regrets_[i]), positive_regrets_sum)]
      ELSE [i \in 0..(b.num_actions_ - 1) |-> Rat(1, b.num_actions_)]

\* RegretMatching::NextStrategy
RegretMatchingNextStrategy(b, weight) ==
  LET strategy == RegretMatchingStrategy(b)
  IN  [b EXCEPT !.current_strategy_ = strategy,
                !.cumulative_strategy_ =
                   [i \in DOMAIN @ |-> RatAdd(@[i], RatMul(Rat(weight, 1), strategy[i]))]]

\* v, the loss of the current strategy.
IncurredLoss(b, loss) ==
  Accumulate([i \in DOMAIN loss |-> RatMul(Rat(loss[i], 1), b.current_strategy_[i])],
             b.num_actions_)

\* RegretMatching::ObserveLoss
RegretMatchingObserveLoss(b, loss) ==
  LET v == IncurredLoss(b, loss)
  IN  [b EXCEPT !.cumulative_regrets_ =
                   [i \in DOMAIN @ |-> RatAdd(@[i], RatSub(v, Rat(loss[i], 1)))]]

\* RegretMatching::Reset
RegretMatchingReset(b) ==
  [b EXCEPT !.cumulative_regrets_  = Filled_n(b.num_actions_, Rat(0, 1)),
            !.cumulative_strategy_ = Filled_n(b.num_actions_, Rat(0, 1)),
            !.current_strategy_    = Filled_n(b.num_actions_, Rat(1, b.num_actions_))]

\* RegretMatchingPlus::NextStrategy
RegretMatchingPlusNextStrategy(b, weight) ==
  LET strategy == RegretMatchingStrategy(b)
  IN  [b EXCEPT !.current_strategy_ = strategy,
                !.cumulative_strategy_ =
                   [i \in DOMAIN @ |->
                      RatAdd(@[i], RatMul(Rat(b.time_ * weight, 1), strategy[i]))],
                !.time_ = @ + 1]

\* RegretMatchingPlus::ObserveLoss
RegretMatchingPlusObserveLoss(b, loss) ==
  LET v == IncurredLoss(b, loss)
  IN  [b EXCEPT !.cumulative_regrets_ =
                   [i \in DOMAIN @ |->
                      Positive(RatSub(RatAdd(@[i], v), Rat(loss[i], 1)))]]

\* Reset without the last assignment.
RegretMatchingPlusReset_KeepsTime(b) ==
  [b EXCEPT !.cumulative_regrets_  = Filled_n(b.num_actions_, Rat(0, 1)),
            !.cumulative_strategy_ = Filled_n(b.num_actions_, Rat(0, 1)),
            !.current_strategy_    = Filled_n(b.num_actions_, Rat(1, b.num_actions_))]

\* RegretMatchingPlus::Reset
RegretMatchingPlusReset(b) ==
  [b EXCEPT !.cumulative_regrets_  = Filled_n(b.num_actions_, Rat(0, 1)),
            !.cumulative_strategy_ = Filled_n(b.num_actions_, Rat(0, 1)),
            !.current_strategy_    = Filled_n(b.num_actions_, Rat(1, b.num_actions_)),
            !.time_ = 1]

\* The virtual calls.
BanditClasses == {"RegretMatching", "RegretMatchingPlus"}

NewBandit(class, num_actions) ==
  IF class = "RegretMatching" THEN RegretMatching(num_actions)
  ELSE RegretMatchingPlus(num_actions)

NextStrategy(b, weight) ==
  IF b.class = "RegretMatching" THEN RegretMatchingNextStrategy(b, weight)
  ELSE RegretMatchingPlusNextStrategy(b, weight)

ObserveLoss(b, loss) ==
  IF b.class = "RegretMatching" THEN RegretMatchingObserveLoss(b, loss)
  ELSE RegretMatchingPlusObserveLoss(b, loss)

Reset(b) ==
  IF b.class = "RegretMatching" THEN RegretMatchingReset(b)
  ELSE RegretMatchingPlusReset(b)

----------------------------------------------------------------------------
(* The driver                                                              *)

Init ==
  /\ game \in {g \in [num_players_ : kMinPlayers..MaxPlayers,
                        num_cards_ : 1..MaxCards,
                        points_order_ : PointsOrders] :
                 g.num_players_ * g.num_cards_ <= MaxHandCards}
  /\ state = NoState
  /\ fatal = FALSE
  /\ bandit = NoBandit
  /\ calls = 0

Return(r) ==
  /\ state' = r.s
  /\ fatal' = ~r.ok
  /\ UNCHANGED <<game, bandit, calls>>

\* GoofspielGame::NewInitialState
NewInitialState ==
  /\ ~fatal
  /\ state = NoState
  /\ Return(GoofspielState(game.num_players_, game.num_cards_, game.points_order_))

Live == ~fatal /\ state # NoState

\* The joint actions a well-formed driver may submit.
LegalJointActions(s) ==
  {a \in [0..(s.num_players_ - 1) -> 0..(s.num_cards_ - 1)] :
     \A p \in DOMAIN a : s.player_hands_[p][a[p]]}

SeqToSet(q) == {q[k] : k \in DOMAIN q}

\* State::ApplyAction at a chance node, with an outcome of ChanceOutcomes.
ApplyChanceOutcome ==
  /\ Live
  /\ IsChanceNode(state)
  /\ \E c \in SeqToSet(LegalChanceOutcomes(state).list) :
       Return(DoApplyAction(state, c))

\* State::ApplyActions at a simultaneous node, one legal card per player.
ApplyJointAction ==
  /\ Live
  /\ IsSimultaneousNode(state)
  /\ \E actions \in LegalJointActions(state) :
       Return(DoApplyActions(state, actions))

\* State::ApplyAction at a simultaneous node, with a flat joint action.
ApplyFlatAction ==
  /\ Live
  /\ IsSimultaneousNode(state)
  /\ \E flat \in SeqToSet(LegalFlatJointActions(state)) :
       Return(DoApplyAction(state, flat))

Next ==
  \/ NewInitialState
  \/ ApplyChanceOutcome
  \/ ApplyJointAction
  \/ ApplyFlatAction

Spec == Init /\ [][Next]_vars

\* GoofspielGame::GoofspielGame: the parameters are read into the fields as
\* they are.  The number of players is checked against kGameType by the
\* registry that calls the factory; nothing checks num_cards.
GoofspielGame(params) ==
  [ok |-> params.players >= kMinPlayers,
   g  |-> [num_players_   |-> params.players,
           num_cards_     |-> params.num_cards,
           points_order_  |-> params.points_order]]

\* The parameters: any number of cards from none, any number of players
\* from one.
GameParameters ==
  {params \in [players : 1..MaxPlayers,
               num_cards : 0..MaxCards,
               points_order : PointsOrders] :
     params.players * params.num_cards <= MaxHandCards}

\* After LoadGame with parameters that need not be in range.
InitParams ==
  \E params \in GameParameters :
    /\ game = GoofspielGame(params).g
    /\ state = NoState
    /\ fatal = ~GoofspielGame(params).ok
    /\ bandit = NoBandit
    /\ calls = 0

SpecParams == InitParams /\ [][Next]_vars

\* ENABLED <<ApplyJointAction>>_vars: the guard of the action and a legal
\* joint action to take; every resolution changes turns_.
ApplyJointActionEnabled ==
  /\ Live
  /\ IsSimultaneousNode(state)
  /\ LegalJointActions(state) # {}

\* The driver plays on while the state has a legal action: weak fairness of
\* the construction of the state, of the chance outcomes and of the joint
\* actions, the last with its enabling condition written out.
FairSpec ==
  /\ Spec
  /\ WF_vars(NewInitialState)
  /\ WF_vars(ApplyChanceOutcome)
  /\ ([]<>(~ApplyJointActionEnabled) \/ []<><<ApplyJointAction>>_vars)

\* A bandit of either class has been constructed; there is no game.
InitBandit ==
  /\ game = NoGame
  /\ state = NoState
  /\ fatal = FALSE
  /\ \E class \in BanditClasses : \E num_actions \in 1..MaxNumActions :
       bandit = NewBandit(class, num_actions)
  /\ calls = 0

\* The weights and the loss vectors the driver of a bandit passes.
Weights == {1, 2}

Losses(b) == [0..(b.num_actions_ - 1) -> {0, 1}]

BanditNextStrategy ==
  /\ calls < MaxCalls
  /\ \E weight \in Weights : bandit' = NextStrategy(bandit, weight)
  /\ calls' = calls + 1
  /\ UNCHANGED <<game, state, fatal>>

BanditObserveLoss ==
  /\ calls < MaxCalls
  /\ \E loss \in Losses(bandit) : bandit' = ObserveLoss(bandit, loss)
  /\ calls' = calls + 1
  /\ UNCHANGED <<game, state, fatal>>

BanditReset ==
  /\ bandit' = Reset(bandit)
  /\ calls' = 0
  /\ UNCHANGED <<game, state, fatal>>

NextBandit ==
  \/ BanditNextStrategy
  \/ BanditObserveLoss
  \/ BanditReset

SpecBandit == InitBandit /\ [][NextBandit]_vars

\* A driver that does not respect the contract: outcomes outside the deck or
\* already dealt, joint actions at a node of the wrong kind, and vectors that
\* are too short, too long, out of range or name a card no longer held.
AnyOutcomes == -1..game.num_cards_

AnyJointActions ==
  LET P == game.num_players_
      N == game.num_cards_
  IN  LegalJointActions(state)
        \cup {[p \in 0..(len - 1) |-> c] : len \in (P - 1)..(P + 1), c \in -1..N}

\* State::ApplyAction with an arbitrary outcome, at a chance or terminal node.
ApplyAnyAction ==
  /\ Live
  /\ ~IsSimultaneousNode(state)
  /\ \E action_id \in AnyOutcomes :
       Return(DoApplyAction(state, action_id))

\* State::ApplyActions with an arbitrary vector, at any node.
ApplyAnyActions ==
  /\ Live
  /\ \E actions \in AnyJointActions :
       Return(DoApplyActions(state, actions))

NextAny ==
  \/ NewInitialState
  \/ ApplyChanceOutcome
  \/ ApplyJointAction
  \/ ApplyFlatAction
  \/ ApplyAnyAction
  \/ ApplyAnyActions

SpecAny == Init /\ [][NextAny]_vars

----------------------------------------------------------------------------
(* Properties                                                              *)

Players == 0..(game.num_players_ - 1)

Cards == 0..(game.num_cards_ - 1)

Hand(s, p) == {c \in DOMAIN s.player_hands_[p] : s.player_hands_[p][c]}

Dealt(s) == SeqToSet(s.point_card_sequence_)

RECURSIVE SumOver(_, _)
SumOver(S, f) ==
  IF S = {} THEN 0
  ELSE LET x == CHOOSE y \in S : TRUE
       IN  f[x] + SumOver(S \ {x}, f)

\* The constructor has just run.
Constructed == state = NoState /\ state' # NoState

\* C1: a freshly constructed state has played no round, all points are 0,
\* every player holds all N cards and the winner and action histories are
\* empty; with random ordering it is a chance node showing no card, with
\* ascending ordering a simultaneous node showing card 0, with descending
\* ordering a simultaneous node showing card N-1.
C1_FreshState ==
  [][Constructed =>
       /\ ~fatal'
       /\ state'.turns_ = 0
       /\ DOMAIN state'.points_ = Players
       /\ \A p \in Players : state'.points_[p] = 0
       /\ DOMAIN state'.player_hands_ = Players
       /\ \A p \in Players : Hand(state', p) = Cards
       /\ state'.win_sequence_ = <<>>
       /\ state'.actions_history_ = <<>>
       /\ state'.winners_ = {}
       /\ (game.points_order_ = "random" =>
             IsChanceNode(state') /\ state'.point_card_ = -1
               /\ state'.point_card_sequence_ = <<>>)
       /\ (game.points_order_ = "ascending" =>
             IsSimultaneousNode(state') /\ state'.point_card_ = 0)
       /\ (game.points_order_ = "descending" =>
             IsSimultaneousNode(state') /\ state'.point_card_ = game.num_cards_ - 1)
    ]_vars

C1_Witness ==
  /\ state # NoState
  /\ state.turns_ = 0
  /\ state.actions_history_ = <<>>
  /\ game.points_order_ = "descending"
  /\ game.num_cards_ = 3
  /\ state.point_card_ = 2

\* The rounds resolved by one step, and the card each was played for: the
\* card showing before the step for the first, the card dealt for the forced
\* last round for the second.
NewRounds == (Len(state.win_sequence_) + 1)..Len(state'.win_sequence_)

RoundCard(i) ==
  IF i = Len(state.win_sequence_) + 1
  THEN state.point_card_
  ELSE state'.point_card_sequence_[i]

MaxBidders(bids) ==
  {p \in DOMAIN bids : \A q \in DOMAIN bids : bids[q] <= bids[p]}

RoundOutcome(i) ==
  LET m == MaxBidders(state'.actions_history_[i])
  IN  IF Cardinality(m) = 1 THEN CHOOSE p \in m : TRUE ELSE kInvalidPlayer

\* C2: a round played for card c gives c+1 points to the only player who bid
\* the highest card, nothing to anybody else, and records that player; when
\* the highest bid is shared nobody scores and "no winner" is recorded.
C2_RoundResolution ==
  [][(Live /\ IsSimultaneousNode(state) /\ state' # state) =>
       /\ ~fatal'
       /\ NewRounds # {}
       /\ Len(state'.actions_history_) = Len(state'.win_sequence_)
       /\ \A i \in NewRounds : state'.win_sequence_[i] = RoundOutcome(i)
       /\ \A i \in DOMAIN state.win_sequence_ :
            state'.win_sequence_[i] = state.win_sequence_[i]
       /\ \A p \in Players :
            state'.points_[p] = state.points_[p]
              + SumOver({i \in NewRounds : state'.win_sequence_[i] = p},
                        [i \in NewRounds |-> RoundCard(i) + 1])
    ]_vars

\* Player 2 wins a round in which players 0 and 1 made the same lower bid.
C2_Witness ==
  /\ state # NoState
  /\ game.num_players_ = 3
  /\ \E i \in DOMAIN state.win_sequence_ :
       /\ state.actions_history_[i][0] = state.actions_history_[i][1]
       /\ state.actions_history_[i][2] > state.actions_history_[i][0]
       /\ state.win_sequence_[i] = 2
       /\ state.points_[2] > 0
  /\ \E i \in DOMAIN state.win_sequence_ : state.win_sequence_[i] = kInvalidPlayer

CardsRemain(s) == Dealt(s) # 0..(s.num_cards_ - 1)

\* C3: after a joint action at a simultaneous node the caller sees a chance
\* node if the ordering is random and value cards remain undealt, a
\* simultaneous node if the ordering is deterministic and value cards
\* remain, and a terminal node exactly when none remain.
C3_NodeAfterJointAction ==
  [][(Live /\ IsSimultaneousNode(state) /\ state' # state) =>
       /\ ~fatal'
       /\ IF CardsRemain(state')
          THEN IF game.points_order_ = "random"
               THEN IsChanceNode(state')
               ELSE IsSimultaneousNode(state')
          ELSE IsTerminal(state')
       /\ IsTerminal(state') <=> (\A p \in Players : Hand(state', p) = {})
    ]_vars

C3_Witness ==
  /\ state # NoState
  /\ game.points_order_ = "random"
  /\ game.num_cards_ = 3
  /\ state.turns_ = 1
  /\ IsChanceNode(state)
  /\ CardsRemain(state)

\* C4: a legal chance outcome c at a chance node reveals c, appends it to
\* the point card sequence and makes the node a simultaneous node of the
\* same round; nothing else changes.
C4_ChanceOutcome ==
  [][(Live /\ IsChanceNode(state) /\ state' # state) =>
       /\ ~fatal'
       /\ \E c \in Cards \ Dealt(state) :
            state' = [state EXCEPT !.point_card_ = c,
                                   !.point_card_sequence_ = Append(@, c),
                                   !.current_player_ = kSimultaneousPlayerId]
       /\ IsSimultaneousNode(state')
       /\ state'.turns_ = state.turns_
       /\ state'.player_hands_ = state.player_hands_
       /\ state'.points_ = state.points_
       /\ state'.win_sequence_ = state.win_sequence_
       /\ state'.actions_history_ = state.actions_history_
       /\ state'.winners_ = state.winners_
    ]_vars

C4_Witness ==
  /\ state # NoState
  /\ game.points_order_ = "random"
  /\ IsSimultaneousNode(state)
  /\ state.turns_ = 1
  /\ Len(state.point_card_sequence_) = 2
  /\ state.point_card_ = state.point_card_sequence_[2]

\* Every vector a driver can hand to DoApplyActions: too short, of the right
\* length, too long; entries below, inside and above the deck.
AllJointInputs ==
  UNION {[0..(len - 1) -> -1..game.num_cards_] :
           len \in (game.num_players_ - 1)..(game.num_players_ + 1)}

NoLegalAction == [ok |-> TRUE, list |-> <<>>]

\* C5: a state is terminal exactly when N rounds have been played; then all
\* hands are empty, no player (nor the terminal sentinel) has a legal action,
\* and every chance outcome and every joint action is refused as fatal with
\* the state left as it is.
C5_TerminalAbsorbing ==
  state # NoState =>
    /\ (CurrentPlayer(state) = kTerminalPlayerId) <=> (state.turns_ = game.num_cards_)
    /\ IsTerminal(state) =>
         /\ \A p \in Players : Hand(state, p) = {}
         /\ \A p \in Players : LegalActions(state, p) = NoLegalAction
         /\ LegalActions(state, kTerminalPlayerId) = NoLegalAction
         /\ \A action_id \in AnyOutcomes :
              DoApplyAction(state, action_id) = Fatal(state)
         /\ \A actions \in AllJointInputs :
              DoApplyActions(state, actions) = Fatal(state)

\* An action was refused at a terminal node.
C5_Witness ==
  /\ state # NoState
  /\ IsTerminal(state)
  /\ game.num_cards_ = 3
  /\ fatal

Bids(s, p) == {s.actions_history_[i][p] : i \in DOMAIN s.actions_history_}

\* C6: with N >= 2 the caller never sees a state with N-1 rounds played (the
\* engine plays the last round itself), and in every terminal state the
\* point card sequence, the action history and the win sequence have length
\* N, the last round included: all N value cards were dealt and every player
\* bid all N cards.
C6_ForcedFinalRound ==
  state # NoState =>
    /\ ~fatal
    /\ game.num_cards_ >= 2 => state.turns_ # game.num_cards_ - 1
    /\ IsTerminal(state) =>
         /\ Len(state.point_card_sequence_) = game.num_cards_
         /\ Len(state.actions_history_) = game.num_cards_
         /\ Len(state.win_sequence_) = game.num_cards_
         /\ Dealt(state) = Cards
         /\ \A p \in Players : Bids(state, p) = Cards

C6_Witness ==
  /\ state # NoState
  /\ ~fatal
  /\ game.num_cards_ = 3
  /\ game.points_order_ = "random"
  /\ IsTerminal(state)
  /\ Len(state.actions_history_) = 3

\* C7: for every player p, LegalActions(p) lists in ascending order exactly
\* the cards c with hands[p][c] set, and these are the cards of the deck
\* that p has not bid yet.
C7_LegalActions ==
  state # NoState =>
    \A p \in Players :
      LET r == LegalActions(state, p)
      IN  /\ r.ok
          /\ SeqToSet(r.list) = {c \in Cards : state.player_hands_[p][c]}
          /\ \A j, k \in DOMAIN r.list : j < k => r.list[j] < r.list[k]
          /\ SeqToSet(r.list) = Cards \ Bids(state, p)

C7_Witness ==
  /\ state # NoState
  /\ game.num_cards_ = 3
  /\ state.turns_ = 1
  /\ LegalActions(state, 0).list = <<0, 2>>
  /\ LegalActions(state, 1).list = <<0, 1>>

\* C8: at a chance node ChanceOutcomes lists exactly the cards not yet in the
\* point card sequence, each once, each with probability
\* 1/(N - length of the sequence); the list is not empty, the probabilities
\* add up to 1 and the size check passes.  At a terminal node the request is
\* fatal.
C8_ChanceOutcomes ==
  state # NoState =>
    /\ IsChanceNode(state) =>
         LET r == ChanceOutcomes(state)
             n == game.num_cards_ - Len(state.point_card_sequence_)
         IN  /\ r.ok
             /\ Len(r.outcomes) > 0
             /\ {r.outcomes[k][1] : k \in DOMAIN r.outcomes} = Cards \ Dealt(state)
             /\ Len(r.outcomes) = Cardinality(Cards \ Dealt(state))
             /\ \A k \in DOMAIN r.outcomes : r.outcomes[k][2] = <<1, n>>
             /\ SumOver(DOMAIN r.outcomes, [k \in DOMAIN r.outcomes |-> r.outcomes[k][2][1]]) = n
    /\ IsTerminal(state) => ~ChanceOutcomes(state).ok

C8_Witness ==
  /\ state # NoState
  /\ game.num_cards_ = 3
  /\ IsChanceNode(state)
  /\ state.turns_ = 1
  /\ Len(ChanceOutcomes(state).outcomes) = 2

Deterministic == game.points_order_ # "random"

OrderedCard(r) ==
  IF game.points_order_ = "ascending" THEN r ELSE game.num_cards_ - 1 - r

\* C9: with ascending order the card of round r (from 0) is r, with
\* descending order N-1-r, which is the lowest (highest) card not dealt
\* before; no state is a chance node, every round gets its card, and a card
\* is showing in every state that is not terminal.
C9_DeterministicOrder ==
  (state # NoState /\ Deterministic) =>
    /\ ~fatal
    /\ ~IsChanceNode(state)
    /\ Len(state.point_card_sequence_) =
         (IF IsTerminal(state) THEN game.num_cards_ ELSE state.turns_ + 1)
    /\ \A i \in DOMAIN state.point_card_sequence_ :
         LET c == state.point_card_sequence_[i]
             rest == Cards \ {state.point_card_sequence_[k] : k \in 1..(i - 1)}
         IN  /\ c = OrderedCard(i - 1)
             /\ c \in rest
             /\ \A d \in rest :
                  IF game.points_order_ = "ascending" THEN c <= d ELSE c >= d
    /\ ~IsTerminal(state) =>
         /\ state.point_card_ \in Cards
         /\ state.point_card_ = OrderedCard(state.turns_)

C9_Witness ==
  /\ state # NoState
  /\ game.points_order_ = "descending"
  /\ game.num_cards_ = 3
  /\ state.turns_ = 1
  /\ state.point_card_ = 1
  /\ state.point_card_sequence_ = <<2, 1>>

HandSize(s, p) == Cardinality(Hand(s, p))

\* C10 as stated: the hand sizes of all players add up to N - rounds played.
C10_SumOfHands ==
  state # NoState =>
    SumOver(Players, [p \in Players |-> HandSize(state, p)])
      = game.num_cards_ - state.turns_

\* C10: every player's hand holds exactly N - rounds played cards, so that
\* the hands of all P players add up to P * (N - rounds played).
C10_HandSizes ==
  state # NoState =>
    /\ \A p \in Players : HandSize(state, p) = game.num_cards_ - state.turns_
    /\ SumOver(Players, [p \in Players |-> HandSize(state, p)])
         = game.num_players_ * (game.num_cards_ - state.turns_)

C10_Witness ==
  /\ state # NoState
  /\ game.num_cards_ = 3
  /\ game.num_players_ = 2
  /\ state.turns_ = 1
  /\ HandSize(state, 0) = 2
  /\ HandSize(state, 1) = 2

\* C11 as stated: no card index is in the hand of two players at once.
C11_DisjointHands ==
  state # NoState =>
    \A p, q \in Players : p # q => Hand(state, p) \cap Hand(state, q) = {}

\* C11: every player holds an own copy of every card index: index c is in
\* the hand of p exactly while p has not bid c, whoever else holds c, and an
\* index that all players have bid is in nobody's hand.
C11_OwnCopies ==
  state # NoState =>
    \A c \in Cards :
      /\ \A p \in Players : (c \in Hand(state, p)) <=> (c \notin Bids(state, p))
      /\ (\A p \in Players : c \in Bids(state, p)) =>
           (\A p \in Players : c \notin Hand(state, p))

\* After a round, one index is held by both players and another by one only.
C11_Witness ==
  /\ state # NoState
  /\ game.num_players_ = 2
  /\ state.turns_ = 1
  /\ \E c \in Cards : c \in Hand(state, 0) /\ c \in Hand(state, 1)
  /\ \E c \in Cards : c \in Hand(state, 0) /\ c \notin Hand(state, 1)

\* The exact sum of the doubles returns[0..p-1].
RECURSIVE ExactSum(_, _)
ExactSum(returns, p) ==
  IF p = 0 THEN IntToDouble(0) ELSE ExactAdd(ExactSum(returns, p - 1), returns[p - 1])

IsZero(x) == x.num = 0 /\ x.err = 0

TerminalState == state # NoState /\ IsTerminal(state)

TotalPointsExact ==
  \A p \in Players :
    DoubleEq(Returns(state, "total_points")[p], IntToDouble(state.points_[p]))

\* C12 as stated: the returned values sum to exactly 0 under win-loss and
\* point-difference, and equal the points under total-points.
C12_ReturnsSumExactlyZero ==
  TerminalState =>
    /\ \A rt \in {"win_loss", "point_difference"} :
         IsZero(ExactSum(Returns(state, rt), game.num_players_))
    /\ TotalPointsExact

\* |x| <= n * 2^-(kMantissaBits - 1)
WithinRounding(x, n) ==
  /\ x.num = 0
  /\ IF x.exp >= kMantissaBits - 1
     THEN Abs(x.err) <= n * x.den * Pow2(x.exp - (kMantissaBits - 1))
     ELSE Scale(Abs(x.err), (kMantissaBits - 1) - x.exp) <= n * x.den

\* C12: in a terminal state the returns of win-loss and point-difference are
\* doubles rounded from numbers that sum to exactly 0 (point-difference:
\* points[p] minus the average of points), so their sum is 0 up to rounding,
\* within P * S * 2^-52 for S = N(N+1)/2; under total-points the return of p
\* is exactly points[p].
C12_ReturnsSum ==
  TerminalState =>
    LET P == game.num_players_
        S == (game.num_cards_ * (game.num_cards_ + 1)) \div 2
    IN  /\ \A rt \in {"win_loss", "point_difference"} :
             WithinRounding(ExactSum(Returns(state, rt), P), P * S)
        /\ \A p \in Players :
             LET r == Returns(state, "point_difference")[p]
             IN  r.num * P = (state.points_[p] * P - SumOver(Players, state.points_)) * r.den
        /\ TotalPointsExact

\* Three players end with unequal points: the average is not a double.
C12_Witness ==
  /\ TerminalState
  /\ game.num_players_ = 3
  /\ SumOver(Players, state.points_) % 3 # 0
  /\ ~IsZero(ExactSum(Returns(state, "point_difference"), 3))
  /\ Cardinality(state.winners_) = 1

\* x is within half a unit in the last place of a / b (a # 0, b > 0).
NearestTo(x, a, b) ==
  LET half == kMantissaBits - Binade(Abs(a), b)
  IN  /\ x.num * b = a * x.den
      /\ IF x.exp >= half THEN Abs(x.err) <= x.den * Pow2(x.exp - half)
         ELSE Scale(Abs(x.err), half - x.exp) <= x.den

IdenticalBids(s) ==
  \A i \in DOMAIN s.actions_history_ :
    \A p, q \in Players : s.actions_history_[i][p] = s.actions_history_[i][q]

\* C13: win-loss returns of a terminal state: all 0 if every player is a
\* winner, otherwise the double of +1/|winners| for a winner and of
\* -1/(P-|winners|) for the others; with N=3, P=2, ascending, the round
\* winners 0, 1, 0 give [+1, -1]; identical bids in every round make every
\* player a winner with all returns 0.
C13_WinLoss ==
  TerminalState =>
    LET returns == Returns(state, "win_loss")
        P       == game.num_players_
        W       == Cardinality(state.winners_)
    IN  /\ W = P => \A p \in Players : IsZero(returns[p])
        /\ W # P =>
             /\ W \in 1..(P - 1)
             /\ \A p \in Players :
                  IF p \in state.winners_ THEN NearestTo(returns[p], 1, W)
                  ELSE NearestTo(returns[p], -1, P - W)
        /\ ( /\ game = [num_players_ |-> 2, num_cards_ |-> 3, points_order_ |-> "ascending"]
             /\ state.win_sequence_ = <<0, 1, 0>> ) =>
             /\ DoubleEq(returns[0], IntToDouble(1))
             /\ DoubleEq(returns[1], IntToDouble(-1))
        /\ IdenticalBids(state) =>
             /\ state.winners_ = Players
             /\ \A p \in Players : IsZero(returns[p])

\* N=3, P=2, ascending: player 0 takes cards 1 and 3, player 1 card 2, the
\* third round being the one the engine plays.
C13_Witness ==
  /\ TerminalState
  /\ game = [num_players_ |-> 2, num_cards_ |-> 3, points_order_ |-> "ascending"]
  /\ state.win_sequence_ = <<0, 1, 0>>
  /\ state.points_ = [p \in 0..1 |-> IF p = 0 THEN 4 ELSE 2]
  /\ state.actions_history_[3] = [p \in 0..1 |-> IF p = 0 THEN 2 ELSE 1]

\* A play-through of three players who bid identically in every round.
C13_IdenticalBidsReached ==
  /\ TerminalState
  /\ game.num_cards_ = 3
  /\ game.num_players_ = 3
  /\ IdenticalBids(state)

ReturnsWithinBounds(returns_type) ==
  \A p \in Players :
    LET r == Returns(state, returns_type)[p]
    IN  /\ DoubleCmp(MinUtility(game, returns_type), r) <= 0
        /\ DoubleCmp(r, MaxUtility(game, returns_type)) <= 0

\* C14: in every terminal state every entry of Returns() lies between
\* MinUtility() and MaxUtility() of the game, for each returns policy.
C14_ReturnsWithinUtilityBounds ==
  TerminalState => \A rt \in ReturnsTypes : ReturnsWithinBounds(rt)

MaxPointsPlayers(s) ==
  {p \in Players : \A q \in Players : s.points_[q] <= s.points_[p]}

\* C15: winners_ is empty in every non-terminal state, and in a terminal
\* state it is the non-empty set of the players with the maximum points.
C15_Winners ==
  state # NoState =>
    IF IsTerminal(state)
    THEN state.winners_ = MaxPointsPlayers(state) /\ state.winners_ # {}
    ELSE state.winners_ = {}

\* A terminal state whose winner beat a player who scored as well.
C15_Witness ==
  /\ TerminalState
  /\ game.num_players_ = 3
  /\ \E p \in state.winners_ : \E q \in Players \ state.winners_ : state.points_[q] > 0

\* C16: points are never negative, and no step lowers the points of any
\* player.
C16_PointsMonotone ==
  [][state' # NoState =>
       \A p \in Players :
         /\ state'.points_[p] >= 0
         /\ state # NoState => state'.points_[p] >= state.points_[p]]_vars

\* Two players have both scored, in different rounds.
C16_Witness ==
  /\ state # NoState
  /\ \E p, q \in Players : p # q /\ state.points_[p] > 0 /\ state.points_[q] > 0

IllegalJointAction(s, actions) ==
  \/ Size(actions) # s.num_players_
  \/ \E p \in Players : actions[p] \notin Cards \/ actions[p] \notin Hand(s, p)

\* C17: at a simultaneous node every joint action of the wrong length, or
\* with a card out of range or no longer held by its player, is refused as
\* fatal and leaves every field of the state as it was.
C17_IllegalJointActionRejected ==
  (state # NoState /\ IsSimultaneousNode(state)) =>
    \A actions \in AllJointInputs :
      IllegalJointAction(state, actions) =>
        DoApplyActions(state, actions) = Fatal(state)

\* A joint action was refused after the first round, which stays resolved.
C17_Witness ==
  /\ state # NoState
  /\ fatal
  /\ IsSimultaneousNode(state)
  /\ state.turns_ = 1
  /\ Len(state.actions_history_) = 1
  /\ \E p \in Players : HandSize(state, p) = game.num_cards_ - 1

\* C18: a joint action applied at a chance node is refused as fatal, so that
\* no round is resolved while no point card is revealed: there are never
\* more resolved rounds than dealt point cards.
C18_JointActionAtChanceNodeRejected ==
  state # NoState =>
    /\ IsChanceNode(state) =>
         \A actions \in AllJointInputs :
           DoApplyActions(state, actions) = Fatal(state)
    /\ state.turns_ <= Len(state.point_card_sequence_)
    /\ Len(state.win_sequence_) <= Len(state.point_card_sequence_)

NoDuplicates(q) == \A i, j \in DOMAIN q : i # j => q[i] # q[j]

\* C19: at a chance node an outcome out of [0, N) or already in the point
\* card sequence is refused as fatal, and the point card sequence never
\* holds a card twice.
C19_IllegalChanceOutcomeRejected ==
  state # NoState =>
    /\ IsChanceNode(state) =>
         \A action_id \in AnyOutcomes :
           (action_id \notin Cards \/ action_id \in Dealt(state)) =>
             DoApplyAction(state, action_id) = Fatal(state)
    /\ NoDuplicates(state.point_card_sequence_)

\* What player A is entitled to see of state s: A's own hand and bids, and
\* the public points, round winners and point cards.
View(s, A) ==
  [player               |-> A,
   num_players_         |-> s.num_players_,
   num_cards_           |-> s.num_cards_,
   points_order_        |-> s.points_order_,
   hand                 |-> s.player_hands_[A],
   bids                 |-> [i \in DOMAIN s.actions_history_ |-> s.actions_history_[i][A]],
   points_              |-> s.points_,
   win_sequence_        |-> s.win_sequence_,
   point_card_sequence_ |-> s.point_card_sequence_]

\* A state object built from a view alone: the other players get empty
\* hands and the bid 0 in every round.
FromView(v) ==
  [constructed          |-> TRUE,
   num_players_         |-> v.num_players_,
   num_cards_           |-> v.num_cards_,
   points_order_        |-> v.points_order_,
   current_player_      |-> kInvalidPlayer,
   winners_             |-> {},
   turns_               |-> Len(v.win_sequence_),
   point_card_          |-> IF Len(v.point_card_sequence_) > Len(v.win_sequence_)
                               \/ (v.points_order_ # "random" /\ v.point_card_sequence_ # <<>>)
                            THEN v.point_card_sequence_[Len(v.point_card_sequence_)]
                            ELSE -1,
   point_card_sequence_ |-> v.point_card_sequence_,
   win_sequence_        |-> v.win_sequence_,
   actions_history_     |-> [i \in DOMAIN v.bids |->
                               [p \in 0..(v.num_players_ - 1) |->
                                  IF p = v.player THEN v.bids[i] ELSE 0]],
   points_              |-> v.points_,
   player_hands_        |-> [p \in 0..(v.num_players_ - 1) |->
                               IF p = v.player THEN v.hand
                               ELSE [c \in 0..(v.num_cards_ - 1) |-> FALSE]]]

PrivateScopeObservers == {o \in IIGObservationTypes : o.private_info = "kSinglePlayer"}

\* C20: with imperfect information, the string and the tensor that an
\* observer with single-player private scope gives player A are functions of
\* A's view alone (own hand, own bids, points, round winners, point cards):
\* they are the observations of the state rebuilt from that view, so two
\* states with the same view give the same observations, whatever the other
\* players hold or bid.
C20_NonLeakage ==
  state # NoState =>
    \A A \in Players : \A o \in PrivateScopeObservers :
      /\ StringFrom(o, TRUE, state, A) = StringFrom(o, TRUE, FromView(View(state, A)), A)
      /\ WriteTensor(o, TRUE, state, A) = WriteTensor(o, TRUE, FromView(View(state, A)), A)

\* After a round, another player holds cards and has made a bid that differ
\* from what the rebuilt state gives them.
C20_Witness ==
  /\ state # NoState
  /\ state.turns_ = 1
  /\ game.num_players_ = 3
  /\ \E A \in Players : \E q \in Players \ {A} :
       /\ Hand(state, q) # Hand(state, A)
       /\ Hand(state, q) # {}
       /\ state.actions_history_[1][q] # 0
       /\ state.actions_history_[1][q] # state.actions_history_[1][A]

\* The states a play-through of legal actions can be in.
Successors(s) ==
  IF IsTerminal(s) THEN {}
  ELSE IF IsChanceNode(s)
       THEN {DoApplyAction(s, c).s : c \in SeqToSet(LegalChanceOutcomes(s).list)}
       ELSE {DoApplyActions(s, a).s : a \in LegalJointActions(s)}

RECURSIVE ReachableFrom(_)
ReachableFrom(S) ==
  LET T == S \cup UNION {Successors(s) : s \in S}
  IN  IF T = S THEN S ELSE ReachableFrom(T)

ReachableStates(g) ==
  ReachableFrom({GoofspielState(g.num_players_, g.num_cards_, g.points_order_).s})

\* C21: for every observer, information mode and player, two reachable
\* states of a game have equal string observations exactly when they have
\* equal tensor observations.
C21_StringTensorAligned ==
  state # NoState =>
    \A s2 \in ReachableStates(game) :
      \A o \in IIGObservationTypes : \A impinfo \in BOOLEAN : \A player \in Players :
        (StringFrom(o, impinfo, state, player) = StringFrom(o, impinfo, s2, player))
          <=> (WriteTensor(o, impinfo, state, player) = WriteTensor(o, impinfo, s2, player))

\* What player p has observed on the way to state s: the own bids, the
\* point cards and the round winners.
ObservedHistory(s, p) ==
  <<[i \in DOMAIN s.actions_history_ |-> s.actions_history_[i][p]],
    s.point_card_sequence_,
    s.win_sequence_>>

\* C22: in every game, with perfect or imperfect information, two reachable
\* states in which the observed history of player p differs have different
\* information-state strings and different information-state tensors for p.
C22_PerfectRecall ==
  state # NoState =>
    \A s2 \in ReachableStates(game) : \A p \in Players :
      ObservedHistory(state, p) # ObservedHistory(s2, p) =>
        \A impinfo \in BOOLEAN :
          /\ InformationStateString(impinfo, state, p) # InformationStateString(impinfo, s2, p)
          /\ InformationStateTensor(impinfo, state, p) # InformationStateTensor(impinfo, s2, p)

\* The moves a well-formed driver may make in state s.
LegalMoves(s) ==
  IF IsTerminal(s) THEN {}
  ELSE IF IsChanceNode(s)
       THEN {[joint |-> FALSE, action_id |-> c] : c \in SeqToSet(LegalChanceOutcomes(s).list)}
       ELSE {[joint |-> TRUE, actions |-> a] : a \in LegalJointActions(s)}

\* C23: a clone equals the original in every field; one or two actions
\* applied to the clone leave the original as it was, and one or two
\* actions applied to the original leave the clone as it was.
C23_CloneIndependent ==
  state # NoState =>
    LET original == 1
        r        == Clone(<<state>>, original)
        clone    == r.ptr
    IN  /\ r.heap[clone] = state
        /\ r.heap[original] = state
        /\ \A m1 \in LegalMoves(state) :
             LET onClone    == ApplyAt(r.heap, clone, m1)
                 onOriginal == ApplyAt(r.heap, original, m1)
             IN  /\ onClone[original] = state
                 /\ onClone[clone] # state
                 /\ onOriginal[clone] = state
                 /\ onOriginal[original] # state
                 /\ \A m2 \in LegalMoves(onClone[clone]) :
                      /\ ApplyAt(onClone, clone, m2)[original] = state
                      /\ ApplyAt(onOriginal, original, m2)[clone] = state

\* A state after the first round from which two more moves can be made.
C23_Witness ==
  /\ state # NoState
  /\ state.turns_ = 1
  /\ \E m1 \in LegalMoves(state) :
       LegalMoves(ApplyAt(<<state>>, 1, m1)[1]) # {}

\* C24 as stated: the point card sequence is as long as the number of
\* rounds played.
C24_LengthIsRoundsPlayed ==
  state # NoState => Len(state.point_card_sequence_) = state.turns_

IsPrefix(q, r) == Len(q) <= Len(r) /\ \A i \in DOMAIN q : q[i] = r[i]

\* C24: the point card sequence counts the card of the round being played
\* as well: its length is turns_ + 1 at a simultaneous node and turns_ at a
\* chance node and in a terminal state; every step keeps the sequence as a
\* prefix of the new one.
C24_PointCardSequenceLength ==
  [][state' # NoState =>
       /\ Len(state'.point_card_sequence_) =
            state'.turns_ + (IF IsSimultaneousNode(state') THEN 1 ELSE 0)
       /\ state # NoState =>
            IsPrefix(state.point_card_sequence_, state'.point_card_sequence_)]_vars

\* A simultaneous node after one round: two point cards have been dealt.
C24_Witness ==
  /\ state # NoState
  /\ IsSimultaneousNode(state)
  /\ state.turns_ = 1
  /\ Len(state.point_card_sequence_) = 2
  /\ state.points_order_ = "random"

\* C25: a card that has left a hand never comes back, and a step takes from
\* the hand of p exactly the cards p bid in the rounds the step resolved, one
\* card for each of these rounds.
C25_HandsOnlyShrink ==
  [][(state # NoState /\ state' # NoState) =>
       \A p \in Players :
         LET cleared == Hand(state, p) \ Hand(state', p)
             bids    == {state'.actions_history_[i][p] : i \in NewRounds}
         IN  /\ Hand(state', p) \subseteq Hand(state, p)
             /\ cleared = bids
             /\ Cardinality(cleared) = Cardinality(NewRounds)]_vars

\* Three players have bid three different cards in the first round.
C25_Witness ==
  /\ state # NoState
  /\ game.num_players_ = 3
  /\ game.num_cards_ = 3
  /\ state.turns_ = 1
  /\ Cardinality({Hand(state, p) : p \in Players}) = 3

\* C26: for every observer and information mode, WriteTensor asks at every
\* reachable state and for every player for the blocks, by name and shape,
\* that the tensor shape of the game was inferred from, and every position
\* it writes lies inside its block.
C26_TensorLayout ==
  state # NoState =>
    \A o \in IIGObservationTypes : \A impinfo \in BOOLEAN : \A player \in Players :
      LET writes == TensorWrites(o, impinfo, state, player)
      IN  /\ [k \in DOMAIN writes |-> [name |-> writes[k].name, shape |-> writes[k].shape]]
               = InferTensorShape(game, o, impinfo)
          /\ \A k \in DOMAIN writes : writes[k].ones \subseteq Indices(writes[k].shape)
          /\ (o = kInfoStateObsType =>
                Len(writes) = Len(InformationStateTensorShape(game, impinfo)))
          /\ (o = kDefaultObsType =>
                Len(writes) = Len(ObservationTensorShape(game, impinfo)))

\* A terminal state of three rounds, the last row of every history block
\* written, one round tied.
C26_Witness ==
  /\ TerminalState
  /\ game.num_cards_ = 3
  /\ state.win_sequence_[3] # kInvalidPlayer
  /\ \E i \in 1..2 : state.win_sequence_[i] = kInvalidPlayer

C28_OutOfRangeConfigFatal ==
  (game.num_cards_ < 1 \/ game.num_players_ < kMinPlayers) =>
    (fatal /\ state = NoState)

\* C29: after any sequence of NextStrategy and ObserveLoss calls, Reset
\* leaves a RegretMatching or RegretMatchingPlus bandit with every field at
\* the value it has in a new bandit with the same number of actions, and
\* the next strategy and loss update of the two are the same.
C29_ResetIsFresh ==
  LET fresh == NewBandit(bandit.class, bandit.num_actions_)
      reset == Reset(bandit)
  IN  /\ reset = fresh
      /\ \A f \in {"cumulative_regrets_", "cumulative_strategy_", "current_strategy_"} :
           reset[f] = fresh[f]
      /\ (bandit.class = "RegretMatchingPlus" => reset.time_ = 1)
      /\ \A weight \in Weights : \A loss \in Losses(bandit) :
           /\ NextStrategy(reset, weight) = NextStrategy(fresh, weight)
           /\ ObserveLoss(NextStrategy(reset, weight), loss)
                = ObserveLoss(NextStrategy(fresh, weight), loss)

\* Reset makes a difference in every field.
C29_Witness ==
  LET fresh == NewBandit(bandit.class, bandit.num_actions_)
  IN  /\ bandit.class = "RegretMatchingPlus"
      /\ bandit.time_ > 1
      /\ bandit.cumulative_regrets_ # fresh.cumulative_regrets_
      /\ bandit.cumulative_strategy_ # fresh.cumulative_strategy_
      /\ bandit.current_strategy_ # fresh.current_strategy_

\* The same for a RegretMatching bandit.
C29_WitnessRegretMatching ==
  LET fresh == NewBandit(bandit.class, bandit.num_actions_)
  IN  /\ bandit.class = "RegretMatching"
      /\ \E i \in DOMAIN bandit.cumulative_regrets_ : bandit.cumulative_regrets_[i].num < 0
      /\ bandit.cumulative_strategy_ # fresh.cumulative_strategy_
      /\ bandit.current_strategy_ # fresh.current_strategy_

\* C30: for an observer with public info and without perfect recall, the
\* point_card block of the tensor marks the card that is face up and nothing
\* when no card is face up, which is the card of the "Current point card"
\* line of the string.
C30_PointCardBlockIsCurrentCard ==
  state # NoState =>
    \A o \in {t \in IIGObservationTypes : t.public_info /\ ~t.perfect_recall} :
      \A impinfo \in BOOLEAN : \A player \in Players :
        LET tensor == WriteTensor(o, impinfo, state, player)
            block  == tensor[CHOOSE k \in DOMAIN tensor : tensor[k].name = "point_card"]
            marked == {c \in DOMAIN block.values : block.values[c] = 1}
            value  == IF marked = {} THEN 0 ELSE 1 + (CHOOSE c \in marked : TRUE)
        IN  /\ marked = (IF state.point_card_ = -1 THEN {} ELSE {state.point_card_})
            /\ CurrentPointCardString(state)
                 = "Current point card: " \o ToString(value) \o "\n"

\* The resolution of a legal joint action at the current node has left
\* turns_ = num_cards_ - 1: the branch that plays the last turn runs.
LastTurnForced(actions) ==
  /\ ResolveRound(state, actions).ok
  /\ ResolveRound(state, actions).s.turns_ = game.num_cards_ - 1

\* C31: when the branch that plays the last turn runs, the chance player
\* (random order) has exactly one outcome and, once it is dealt, every
\* player has exactly one legal action, so both size checks pass; the nested
\* resolution leaves turns_ = num_cards_, so it does not enter the branch
\* again and computes the winners, which the outer call does not; the state
\* is terminal afterwards, and a resolution that does not enter the branch
\* computes the winners only when it ends the game.
C31_ForcedLastTurn ==
  (Live /\ IsSimultaneousNode(state)) =>
    \A actions \in LegalJointActions(state) :
      LET r5 == ResolveRound(state, actions)
          r1 == PlayLastChance(r5.s)
          last == LastCards(r1.s)
          nested == ResolveRound(r1.s, last.actions)
          done == DoApplyActions(state, actions)
      IN  IF LastTurnForced(actions)
          THEN /\ state.turns_ = game.num_cards_ - 2
               /\ (game.points_order_ = "random") = IsChanceNode(r5.s)
               /\ IsChanceNode(r5.s) =>
                    /\ LegalChanceOutcomes(r5.s).ok
                    /\ Len(LegalChanceOutcomes(r5.s).list) = 1
               /\ r1.ok
               /\ IsSimultaneousNode(r1.s)
               /\ \A p \in Players : Len(LegalActions(r1.s, p).list) = 1
               /\ last.ok
               /\ ActionsValid(r1.s, last.actions)
               /\ nested.ok
               /\ nested.s.turns_ = game.num_cards_
               /\ nested.s.turns_ # game.num_cards_ - 1
               /\ done.ok
               /\ done.s = DetermineWinner(nested.s)
               /\ IsTerminal(done.s)
          ELSE /\ done.ok
               /\ done.s = IF r5.s.turns_ = game.num_cards_
                           THEN DetermineWinner(r5.s) ELSE r5.s
               /\ IsTerminal(done.s) = (game.num_cards_ = 1)

\* The branch is about to run under random order, with a chance event.
C31_Witness ==
  /\ Live
  /\ IsSimultaneousNode(state)
  /\ game.points_order_ = "random"
  /\ game.num_cards_ = 3
  /\ \E actions \in LegalJointActions(state) : LastTurnForced(actions)

\* The value of the point card of every completed round that a player won.
WonValues(s) ==
  [i \in DOMAIN s.win_sequence_ |->
     IF s.win_sequence_[i] # kInvalidPlayer THEN 1 + s.point_card_sequence_[i] ELSE 0]

\* C32: the points of all players sum to the values (card + 1) of the point
\* cards of the completed rounds that a player won, tied rounds adding
\* nothing, and so to at most N(N+1)/2.
C32_PointsSum ==
  state # NoState =>
    /\ Len(state.win_sequence_) = state.turns_
    /\ Len(state.point_card_sequence_) >= Len(state.win_sequence_)
    /\ SumOver(Players, state.points_)
         = SumOver(DOMAIN state.win_sequence_, WonValues(state))
    /\ SumOver(Players, state.points_) <= (game.num_cards_ * (game.num_cards_ + 1)) \div 2

\* A round was tied and another was won.
C32_Witness ==
  /\ state # NoState
  /\ \E i \in DOMAIN state.win_sequence_ : state.win_sequence_[i] = kInvalidPlayer
  /\ \E i \in DOMAIN state.win_sequence_ : state.win_sequence_[i] # kInvalidPlayer
  /\ SumOver(Players, state.points_) > 0

\* Every round was won: the sum reaches N(N+1)/2.
C32_WitnessAllWon ==
  /\ TerminalState
  /\ game.num_cards_ = 3
  /\ SumOver(Players, state.points_) = (game.num_cards_ * (game.num_cards_ + 1)) \div 2

\* The last turn of a finished game of two or more cards was played by
\* DoApplyActions itself.
LastTurnPlayedByCode(s) == IsTerminal(s) /\ s.num_cards_ >= 2

\* The joint actions the driver has supplied.
DriverJointActions(s) ==
  IF LastTurnPlayedByCode(s) THEN s.turns_ - 1 ELSE s.turns_

\* The chance outcomes the driver has supplied.
DriverChanceOutcomes(s) ==
  IF s.points_order_ # "random" THEN 0
  ELSE IF LastTurnPlayedByCode(s) THEN Len(s.point_card_sequence_) - 1
  ELSE Len(s.point_card_sequence_)

\* max(1, N - 1)
DriverTurns == Max(1, game.num_cards_ - 1)

\* turns_ stays within 0..N; the driver has supplied at most max(1, N-1)
\* joint actions and chance outcomes, and exactly that many when and only
\* when the state is terminal; a state that is not terminal has a legal
\* action and has not failed.
C33_Bounded ==
  state # NoState =>
    /\ state.turns_ \in 0..game.num_cards_
    /\ DriverJointActions(state) \in 0..DriverTurns
    /\ DriverChanceOutcomes(state) \in 0..DriverTurns
    /\ IsTerminal(state) <=> DriverJointActions(state) = DriverTurns
    /\ (IsTerminal(state) /\ game.points_order_ = "random") =>
         DriverChanceOutcomes(state) = DriverTurns
    /\ ~IsTerminal(state) => (~fatal /\ LegalMoves(state) # {})
    /\ ~IsTerminal(state) => Len(LegalActions(state, CurrentPlayer(state)).list) >= 1

\* The new state has counted nothing; every step of the driver is one chance
\* outcome at a chance node or one joint action at a simultaneous node and
\* adds one to that count alone; turns_ does not decrease.
C33_Step ==
  IF state = NoState
  THEN /\ state'.turns_ = 0
       /\ DriverJointActions(state') = 0
       /\ DriverChanceOutcomes(state') = 0
  ELSE /\ state'.turns_ >= state.turns_
       /\ \/ /\ IsChanceNode(state)
             /\ DriverChanceOutcomes(state') = DriverChanceOutcomes(state) + 1
             /\ DriverJointActions(state') = DriverJointActions(state)
          \/ /\ IsSimultaneousNode(state)
             /\ DriverJointActions(state') = DriverJointActions(state) + 1
             /\ DriverChanceOutcomes(state') = DriverChanceOutcomes(state)

\* C33: every play-through of legal actions ends in a terminal state:
\* turns_ never decreases and never exceeds N, the driver supplies exactly
\* max(1, N-1) joint actions and, under random order, exactly max(1, N-1)
\* chance outcomes before the state is terminal, and a state that is not
\* terminal always has a legal action.
C33_Termination ==
  /\ []C33_Bounded
  /\ [][C33_Step]_vars
  /\ <>TerminalState

\* A game of three cards under random order has ended.
C33_Witness ==
  /\ TerminalState
  /\ game.num_cards_ = 3
  /\ game.points_order_ = "random"
  /\ DriverJointActions(state) = 2
  /\ DriverChanceOutcomes(state) = 2

====
